---- MODULE Spec2Model ----
(***************************************************************************)
(* Authorization model of shadi_service: the local store of each           *)
(* principal's Auth0 roles and permissions, its synchronisation with the   *)
(* identity provider, vendor-scoped access resolution and the vendor       *)
(* inquiry status.                                                         *)
(*                                                                         *)
(* Time is counted in whole hours.  Role and permission lists are modelled *)
(* as sets (the code stores JSON lists and only tests membership).         *)
(***************************************************************************)
EXTENDS Integers, FiniteSets, Sequences, TLC

\* ---------------------------------------------------------------- bounds
MaxTime == 3        \* the clock runs from hour 0 to hour MaxTime
MaxFetch == 2       \* number of sync fetches that are started in one behaviour
MaxUsers == 3       \* rows of the EventUser table
MaxVendorUsers == 3 \* rows of the VendorUser table
MaxInquiries == 1   \* rows of the VendorInquiry table
TokenLifeHours == 2 \* hours a management token of the provider lives
MaxRoleList == 3    \* length of the role lists the permission mapping is applied to

\* ------------------------------------------------------------- constants
StalenessHours == 1 \* timedelta(hours=1) in needs_permission_sync
JwksTtlHours == 1   \* cache.set(cache_key, jwks, 3600)
NeverSynced == -1   \* last_auth0_sync is NULL
NoFetch == 0        \* history tag of a list no sync has written
NoToken == -1       \* _management_token is None

NULL == "NULL"

Requests == {"r1", "r2"}
Subjects == {"auth0|a", "auth0|b"}
Vendors == {"v1"}
KeyIds == {"k1", "k2"}

\* ------------------------------------------------ roles and permissions
\* Auth0UserSync._get_permissions_for_roles: the role -> permissions table
RolePermissions(role) ==
    CASE role = "user" ->
           {"read:own_profile", "update:own_profile", "read:vendors",
            "create:inquiries"}
      [] role = "vendor_representative" ->
           {"read:own_profile", "update:own_profile", "read:vendors",
            "update:own_vendor", "manage:vendor_images", "read:inquiries"}
      [] role = "event_organizer" ->
           {"read:own_profile", "update:own_profile", "read:vendors",
            "create:events", "manage:events", "invite:users"}
      [] OTHER -> {}

\* Auth0UserSync._get_permissions_for_roles (service): flat union, duplicates removed
GetPermissionsForRoles(roles) == UNION {RolePermissions(role) : role \in roles}

GetVendorPermissionsOfOwner(role) ==
    {"read:vendor_info", "read:vendor_inquiries", "edit:vendor_info",
     "manage:vendor_bookings", "respond:vendor_inquiries", "view:vendor_analytics",
     "manage:vendor_team"}

\* VendorUser.get_vendor_permissions: permissions of a relationship, by its role tier
GetVendorPermissions(role) ==
    {"read:vendor_info", "read:vendor_inquiries"} \cup
    (CASE role \in {"owner", "manager"} ->
            {"edit:vendor_info", "manage:vendor_bookings", "respond:vendor_inquiries",
             "view:vendor_analytics", "manage:vendor_team"}
       [] role = "employee" -> {"manage:vendor_bookings", "respond:vendor_inquiries"}
       [] role = "representative" -> {"respond:vendor_inquiries"}
       [] OTHER -> {})

\* ----------------------------------- the role list and the permission list
\* role_permissions of _get_permissions_for_roles, each list in source order
RolePermissionList(role) ==
    CASE role = "user" ->
           <<"read:own_profile", "update:own_profile", "read:vendors",
             "create:inquiries">>
      [] role = "vendor_representative" ->
           <<"read:own_profile", "update:own_profile", "read:vendors",
             "update:own_vendor", "manage:vendor_images", "read:inquiries">>
      [] role = "event_organizer" ->
           <<"read:own_profile", "update:own_profile", "read:vendors",
             "create:events", "manage:events", "invite:users">>
      [] OTHER -> <<>>

\* for role in roles: permissions.extend(role_permissions.get(role, []))
RECURSIVE ExtendAll(_)
ExtendAll(roles) ==
    IF roles = <<>> THEN <<>>
    ELSE RolePermissionList(Head(roles)) \o ExtendAll(Tail(roles))

KeepAll(list) == list

\* list(set(permissions)): every element once (here in the order of first
\* occurrence; the order of the code's list is not determined)
RECURSIVE ListOfSet(_)
ListOfSet(list) ==
    IF list = <<>> THEN <<>>
    ELSE <<Head(list)>> \o
         ListOfSet(SelectSeq(Tail(list), LAMBDA p : p # Head(list)))

\* Auth0UserSync._get_permissions_for_roles on a role list
GetPermissionsForRoleList(roles) == ListOfSet(ExtendAll(roles))

\* the role names a role list can hold: the three of the table and one that is
\* not in it
RoleNames == {"user", "vendor_representative", "event_organizer", "vendor_admin"}

\* the role lists of up to MaxRoleList roles, repetitions included
RoleLists == UNION {[1..n -> RoleNames] : n \in 0..MaxRoleList}

\* What the provider's Management API can hold for a subject (roles, permissions)
ProviderSnapshots ==
    { [roles |-> {}, permissions |-> {}],
      [roles |-> {"vendor_admin"}, permissions |-> {"update:own_vendor"}],
      [roles |-> {"super_admin"}, permissions |-> {"read:vendors"}] }

\* ------------------------------------------------------------ staleness
NeedsPermissionSyncLate(last, t) ==
    IF last = NeverSynced THEN TRUE ELSE last <= t - StalenessHours

\* EventUser.needs_permission_sync
NeedsPermissionSync(last, t) ==
    IF last = NeverSynced THEN TRUE ELSE last < t - StalenessHours

\* ----------------------------------------------------------------- state
VARIABLES
    now,           \* timezone.now(), in hours
    users,         \* EventUser table: pk -> row
    provider,      \* the provider's roles and permissions of each subject
    vendors,       \* Vendor table: vendor -> row
    vendor_users,  \* VendorUser table: a set of rows
    inquiries,     \* VendorInquiry table: id -> row
    pc,            \* where each request in flight is in its handler
    ctx,           \* the locals of each request: its user object and what it fetched
    nfetch,        \* history: how many sync fetches have started
    reply,         \* the last response of a vendor or inquiry operation
    jwks,          \* the provider's signing keys and the JWKS entry of the cache
    management_token  \* _management_token of the long-lived Auth0UserSync

vars == <<now, users, provider, vendors, vendor_users, inquiries, pc, ctx, nfetch, reply,
         jwks, management_token>>

NoUser == 0         \* a NULL foreign key to EventUser

\* EventUser: the Auth0 fields of a row, created with the email as username;
\* roles_fetch and perms_fetch are history fields naming the sync fetch each list
\* was written from
NewUser(sub, email, organizer) ==
    [auth0_user_id |-> sub, email |-> email, username |-> email, auth0_roles |-> {},
     auth0_permissions |-> {}, last_auth0_sync |-> NeverSynced,
     is_organizer |-> organizer, roles_fetch |-> NoFetch, perms_fetch |-> NoFetch]

IdleCtx ==
    [kind |-> "none", user |-> NoUser, required |-> NULL,
     mem |-> NewUser(NULL, NULL, FALSE), out |-> NewUser(NULL, NULL, FALSE),
     checkedAt |-> 0, synced |-> FALSE, calls |-> 0, failed |-> FALSE,
     instance |-> "new", token |-> NoToken,
     fetch |-> NoFetch, roles |-> {}, permissions |-> {},
     result |-> "none", allowed |-> FALSE]

\* what the resolvers of vendor access answer for one (user, vendor) pair
NoGrant ==
    [is_owner |-> FALSE, super_admin |-> FALSE, relationship |-> "none",
     tier |-> NULL, can_edit |-> FALSE, object_access |-> FALSE,
     listed |-> [listed |-> FALSE, role |-> NULL, can_edit |-> FALSE],
     permissions |-> {}, has_permission |-> {},
     has_role |-> {}, vendor_role |-> NULL, can_manage |-> FALSE,
     can_respond |-> FALSE]

\* the outcome of the evaluation of a check
NoCheck == [fn |-> "none", args |-> {}, raised |-> FALSE, value |-> FALSE]

Reply(op, u, v, status) ==
    [op |-> op, user |-> u, vendor |-> v, status |-> status, grant |-> NoGrant,
     check |-> NoCheck, detail |-> NULL]

NoReply == Reply("none", NoUser, NULL, 0)

\* the provider publishes key k1, nothing is cached; fetches is a history field,
\* the number of JWKS fetches of the last token validation
NoJwks ==
    [published |-> {"k1"}, reachable |-> TRUE, cached |-> FALSE, keys |-> {},
     cached_at |-> 0, fetches |-> 0]

Init ==
    /\ now = 0
    /\ users = (1 :> NewUser("auth0|a", "a@x", FALSE)) @@ (2 :> NewUser(NULL, "b@x", FALSE))
    /\ provider = [s \in Subjects |-> [roles |-> {"vendor_admin"},
                                      permissions |-> {"update:own_vendor"}]]
    /\ vendors = [v \in Vendors |-> [admin |-> NoUser, is_active |-> TRUE,
                                     is_verified |-> TRUE, business_name |-> "n0"]]
    /\ vendor_users = {}
    /\ inquiries = <<>>
    /\ pc = [r \in Requests |-> "idle"]
    /\ ctx = [r \in Requests |-> IdleCtx]
    /\ nfetch = 0
    /\ reply = NoReply
    /\ jwks = NoJwks
    /\ management_token = NoToken

\* ------------------------------------------------------------ environment
\* the clock advances
Tick ==
    /\ now < MaxTime
    /\ now' = now + 1
    /\ UNCHANGED <<users, provider, vendors, vendor_users, inquiries, pc, ctx, nfetch, reply, jwks, management_token>>

\* a platform admin changes a subject's roles and permissions at the provider
ProviderChange(s, snap) ==
    /\ provider[s] # snap
    /\ provider' = [provider EXCEPT ![s] = snap]
    /\ UNCHANGED <<now, users, vendors, vendor_users, inquiries, pc, ctx, nfetch, reply, jwks, management_token>>

\* ------------------------------------------------------ permission checks
HasPermissionOpen(user, permission) ==
    IF user.auth0_permissions = {} THEN TRUE
    ELSE permission \in user.auth0_permissions

\* Auth0PermissionChecker.has_permission, for an authenticated user object
HasPermission(user, permission) ==
    IF user.auth0_permissions = {} THEN FALSE
    ELSE permission \in user.auth0_permissions

\* ------------------------------------------------------------ persistence
SaveRolesOnly(row, obj) ==
    [row EXCEPT !.auth0_roles = obj.auth0_roles, !.roles_fetch = obj.roles_fetch,
                !.last_auth0_sync = obj.last_auth0_sync]

SaveRowMerging(row, obj) ==
    [obj EXCEPT !.auth0_roles = row.auth0_roles \cup obj.auth0_roles,
                !.auth0_permissions = row.auth0_permissions \cup obj.auth0_permissions]

\* Model.save(): one UPDATE that writes every field of the in-memory object
SaveRow(row, obj) == obj

\* ------------------------------------------------- requests: entry points
Enter(r, kind, u, required, next) ==
    /\ pc[r] = "idle"
    /\ u \in DOMAIN users
    /\ pc' = [pc EXCEPT ![r] = next]
    /\ ctx' = [ctx EXCEPT ![r] = [IdleCtx EXCEPT !.kind = kind, !.user = u,
                                     !.required = required,
                                     !.mem = users[u], !.out = users[u]]]
    /\ UNCHANGED <<now, users, provider, vendors, vendor_users, inquiries, nfetch, reply, jwks, management_token>>

\* Auth0PermissionRequiredMixin.has_permission, up to the staleness check:
\* without permission_required the view is allowed at once
MixinHasPermission(r, u, required) ==
    IF required = NULL
    THEN /\ pc[r] = "idle"
         /\ u \in DOMAIN users
         /\ pc' = [pc EXCEPT ![r] = "done"]
         /\ ctx' = [ctx EXCEPT ![r] = [IdleCtx EXCEPT !.kind = "mixin", !.user = u,
                                          !.mem = users[u], !.out = users[u],
                                          !.allowed = TRUE]]
         /\ UNCHANGED <<now, users, provider, vendors, vendor_users, inquiries, nfetch, reply, jwks, management_token>>
    ELSE Enter(r, "mixin", u, required, "check")

\* UserProfileAPIView.get: refresh if stale, then return the profile
ProfileGet(r, u) == Enter(r, "profile", u, NULL, "check")

\* RefreshPermissionsAPIView.post: user.sync_auth0_permissions() unconditionally
RefreshPost(r, u) == Enter(r, "refresh", u, NULL, "s_start")

\* Auth0UserSync.sync_user_permissions of auth0_permissions.py, called on a user
ManagementSync(r, u) == Enter(r, "management", u, NULL, "m_start")

\* sync_user_permissions of auth0_permissions.py called on the Auth0UserSync
\* instance the process keeps, with the _management_token it holds
SharedManagementSync(r, u) ==
    /\ pc[r] = "idle"
    /\ u \in DOMAIN users
    /\ pc' = [pc EXCEPT ![r] = "m_start"]
    /\ ctx' = [ctx EXCEPT ![r] = [IdleCtx EXCEPT !.kind = "management", !.user = u,
                                     !.instance = "shared",
                                     !.mem = users[u], !.out = users[u]]]
    /\ UNCHANGED <<now, users, provider, vendors, vendor_users, inquiries, nfetch, reply,
                   jwks, management_token>>

\* Auth0UserSync.__init__: the process makes its instance anew, no token is held
NewInstance ==
    /\ management_token # NoToken
    /\ \A r \in Requests : pc[r] = "idle"
    /\ management_token' = NoToken
    /\ UNCHANGED <<now, users, provider, vendors, vendor_users, inquiries, pc, ctx, nfetch,
                   reply, jwks>>

\* if user.needs_permission_sync(): user.sync_auth0_permissions()
NeedsSyncCheck(r) ==
    /\ pc[r] = "check"
    /\ IF NeedsPermissionSync(ctx[r].mem.last_auth0_sync, now)
       THEN /\ pc' = [pc EXCEPT ![r] = "s_start"]
            /\ ctx' = [ctx EXCEPT ![r].checkedAt = now, ![r].synced = TRUE]
       ELSE /\ pc' = [pc EXCEPT ![r] = "decide"]
            /\ ctx' = [ctx EXCEPT ![r].checkedAt = now]
    /\ UNCHANGED <<now, users, provider, vendors, vendor_users, inquiries, nfetch, reply, jwks, management_token>>

\* ------------------------------- services/auth0_permissions.py: the sync
GetDefaultRolesFromStored(u, user) ==
    {"user"}
    \cup (IF \E vu \in vendor_users : vu.user = u THEN {"vendor_representative"} ELSE {})
    \cup (IF user.is_organizer \/ "user" \in user.auth0_roles
          THEN {"event_organizer"} ELSE {})

\* Auth0UserSync._get_default_roles
GetDefaultRoles(u, user) ==
    {"user"}
    \cup (IF \E vu \in vendor_users : vu.user = u THEN {"vendor_representative"} ELSE {})
    \cup (IF user.is_organizer THEN {"event_organizer"} ELSE {})

ServiceSyncStartNoGuard(r) ==
    /\ pc[r] = "s_start"
    /\ pc' = [pc EXCEPT ![r] = "s_roles"]
    /\ UNCHANGED ctx
    /\ UNCHANGED <<now, users, provider, vendors, vendor_users, inquiries, nfetch, reply, jwks, management_token>>

ServiceSyncStartFatal(r) ==
    /\ pc[r] = "s_start"
    /\ IF ctx[r].mem.auth0_user_id = NULL
       THEN /\ pc' = [pc EXCEPT ![r] = "done"]
            /\ ctx' = [ctx EXCEPT ![r].result = "false"]
       ELSE /\ pc' = [pc EXCEPT ![r] = "s_roles"]
            /\ UNCHANGED ctx
    /\ UNCHANGED <<now, users, provider, vendors, vendor_users, inquiries, nfetch, reply, jwks, management_token>>

\* sync_user_permissions, lines 37-39: a user without Auth0 id is not synced
ServiceSyncStart(r) ==
    /\ pc[r] = "s_start"
    /\ IF ctx[r].mem.auth0_user_id = NULL
       THEN /\ pc' = [pc EXCEPT ![r] = "decide"]
            /\ ctx' = [ctx EXCEPT ![r].result = "false"]
       ELSE /\ pc' = [pc EXCEPT ![r] = "s_roles"]
            /\ UNCHANGED ctx
    /\ UNCHANGED <<now, users, provider, vendors, vendor_users, inquiries, nfetch, reply, jwks, management_token>>

\* sync_user_permissions, lines 42-44: roles, permissions and sync time are set
\* on the user object
ServiceSyncCompute(r) ==
    /\ pc[r] = "s_roles"
    /\ nfetch < MaxFetch
    /\ nfetch' = nfetch + 1
    /\ LET roles == GetDefaultRoles(ctx[r].user, ctx[r].mem)
           perms == GetPermissionsForRoles(roles)
       IN ctx' = [ctx EXCEPT ![r].fetch = nfetch + 1,
                             ![r].roles = roles, ![r].permissions = perms,
                             ![r].out = [ctx[r].mem EXCEPT
                                           !.auth0_roles = roles,
                                           !.auth0_permissions = perms,
                                           !.last_auth0_sync = now,
                                           !.roles_fetch = nfetch + 1,
                                           !.perms_fetch = nfetch + 1]]
    /\ pc' = [pc EXCEPT ![r] = "s_write"]
    /\ UNCHANGED <<now, users, provider, vendors, vendor_users, inquiries, reply, jwks, management_token>>

\* sync_user_permissions, lines 45-48: user.save(), return True
ServiceSyncSave(r) ==
    /\ pc[r] = "s_write"
    /\ users' = [users EXCEPT ![ctx[r].user] = SaveRow(@, ctx[r].out)]
    /\ ctx' = [ctx EXCEPT ![r].result = "true"]
    /\ pc' = [pc EXCEPT ![r] = "decide"]
    /\ UNCHANGED <<now, provider, vendors, vendor_users, inquiries, nfetch, reply, jwks, management_token>>

\* ---------------------------------- auth0_permissions.py: the provider sync
\* sync_user_permissions, lines 237-239: a user without Auth0 id is not synced
ManagementSyncStart(r) ==
    /\ pc[r] = "m_start"
    /\ IF ctx[r].mem.auth0_user_id = NULL
       THEN /\ pc' = [pc EXCEPT ![r] = "decide"]
            /\ ctx' = [ctx EXCEPT ![r].result = "false"]
       ELSE /\ pc' = [pc EXCEPT ![r] = "m_token"]
            /\ UNCHANGED ctx
    /\ UNCHANGED <<now, users, provider, vendors, vendor_users, inquiries, nfetch, reply, jwks, management_token>>

\* the token an exchange at this hour yields, named by the hour it expires
IssuedToken == now + TokenLifeHours

\* get_management_token: an Auth0UserSync that holds a token returns it, whatever
\* its age; otherwise the client-credentials exchange, whose token the instance
\* keeps.  The RequestException of the exchange is re-raised and caught by
\* sync_user_permissions (line 252), which returns False
ManagementToken(r, ok) ==
    /\ pc[r] = "m_token"
    /\ nfetch < MaxFetch
    /\ IF ctx[r].instance = "shared" /\ management_token # NoToken
       THEN /\ ok
            /\ pc' = [pc EXCEPT ![r] = "m_roles"]
            /\ ctx' = [ctx EXCEPT ![r].fetch = nfetch + 1, ![r].token = management_token]
            /\ nfetch' = nfetch + 1
            /\ UNCHANGED management_token
       ELSE IF ok
       THEN /\ pc' = [pc EXCEPT ![r] = "m_roles"]
            /\ ctx' = [ctx EXCEPT ![r].calls = @ + 1, ![r].fetch = nfetch + 1,
                                  ![r].token = IssuedToken]
            /\ nfetch' = nfetch + 1
            /\ management_token' = IF ctx[r].instance = "shared" THEN IssuedToken
                                   ELSE management_token
       ELSE /\ pc' = [pc EXCEPT ![r] = "decide"]
            /\ ctx' = [ctx EXCEPT ![r].calls = @ + 1, ![r].failed = TRUE,
                                  ![r].result = "false"]
            /\ UNCHANGED <<nfetch, management_token>>
    /\ UNCHANGED <<now, users, provider, vendors, vendor_users, inquiries, reply, jwks>>

\* get_user_roles_and_permissions, lines 215-218 and 231-233: GET .../roles; a
\* RequestException (an error status too: the Management API refuses a bearer
\* token that has expired) makes the result {'roles': [], 'permissions': []}
FetchRoles(r, ok) ==
    /\ pc[r] = "m_roles"
    /\ ok => now < ctx[r].token
    /\ IF ok
       THEN /\ pc' = [pc EXCEPT ![r] = "m_perms"]
            /\ ctx' = [ctx EXCEPT ![r].calls = @ + 1,
                                  ![r].roles = provider[ctx[r].mem.auth0_user_id].roles]
       ELSE /\ pc' = [pc EXCEPT ![r] = "m_write"]
            /\ ctx' = [ctx EXCEPT ![r].calls = @ + 1, ![r].failed = TRUE,
                                  ![r].roles = {}, ![r].permissions = {}]
    /\ UNCHANGED <<now, users, provider, vendors, vendor_users, inquiries, nfetch, reply, jwks, management_token>>

\* get_user_roles_and_permissions, lines 221-233: GET .../permissions
FetchPermissions(r, ok) ==
    /\ pc[r] = "m_perms"
    /\ ok => now < ctx[r].token
    /\ IF ok
       THEN ctx' = [ctx EXCEPT ![r].calls = @ + 1,
                               ![r].permissions =
                                   provider[ctx[r].mem.auth0_user_id].permissions]
       ELSE ctx' = [ctx EXCEPT ![r].calls = @ + 1, ![r].failed = TRUE,
                               ![r].roles = {}, ![r].permissions = {}]
    /\ pc' = [pc EXCEPT ![r] = "m_write"]
    /\ UNCHANGED <<now, users, provider, vendors, vendor_users, inquiries, nfetch, reply, jwks, management_token>>

\* requests.post of get_management_token and requests.get of
\* get_user_roles_and_permissions are called without timeout: when the provider
\* accepts the connection and never answers, the call does not return
ProviderSilent(r) ==
    /\ pc[r] \in {"m_token", "m_roles", "m_perms"}
    /\ pc[r] = "m_token" => ~(ctx[r].instance = "shared" /\ management_token # NoToken)
    /\ pc' = [pc EXCEPT ![r] = "waiting"]
    /\ ctx' = [ctx EXCEPT ![r].calls = @ + 1]
    /\ UNCHANGED <<now, users, provider, vendors, vendor_users, inquiries, nfetch, reply,
                   jwks, management_token>>

\* sync_user_permissions, lines 244-250: the lists and the sync time are set on
\* the user object, user.save(), return True
ManagementSyncSave(r) ==
    /\ pc[r] = "m_write"
    /\ LET obj == [ctx[r].mem EXCEPT !.auth0_roles = ctx[r].roles,
                                     !.auth0_permissions = ctx[r].permissions,
                                     !.last_auth0_sync = now,
                                     !.roles_fetch = ctx[r].fetch,
                                     !.perms_fetch = ctx[r].fetch]
       IN /\ users' = [users EXCEPT ![ctx[r].user] = SaveRow(@, obj)]
          /\ ctx' = [ctx EXCEPT ![r].out = obj, ![r].result = "true"]
    /\ pc' = [pc EXCEPT ![r] = "decide"]
    /\ UNCHANGED <<now, provider, vendors, vendor_users, inquiries, nfetch, reply, jwks, management_token>>

\* ------------------------------------------------ requests: the way out
\* has_permission, lines 33-38: the check on the user object of the request;
\* the other handlers go on to their response
Decide(r) ==
    /\ pc[r] = "decide"
    /\ pc' = [pc EXCEPT ![r] = "done"]
    /\ ctx' = [ctx EXCEPT ![r].allowed =
                  IF ctx[r].kind = "mixin"
                  THEN HasPermission(ctx[r].out, ctx[r].required)
                  ELSE TRUE]
    /\ UNCHANGED <<now, users, provider, vendors, vendor_users, inquiries, nfetch, reply, jwks, management_token>>

\* the response is sent and the request's objects are dropped
Finish(r) ==
    /\ pc[r] = "done"
    /\ pc' = [pc EXCEPT ![r] = "idle"]
    /\ ctx' = [ctx EXCEPT ![r] = IdleCtx]
    /\ UNCHANGED <<now, users, provider, vendors, vendor_users, inquiries, nfetch, reply, jwks, management_token>>

\* ------------------------------------------------- token authentication
\* A bearer token as decode_jwt sees it: the key id of its header, whether its
\* signature verifies under the key of that id, whether its exp is in the past,
\* whether audience and issuer are the configured ones, and its payload
Tokens ==
    [kid : {"k1"}, signed : BOOLEAN, expired : {FALSE}, audience : {TRUE},
     sub : {"auth0|a", "auth0|b"},
     email : {NULL, "b@x", "c@x"},
     claims : {[roles |-> {}, permissions |-> {}],
               [roles |-> {"vendor_admin"}, permissions |-> {"update:own_vendor"}]}]

UsersWith(field, value) == {u \in DOMAIN users : users[u][field] = value}

AuthReply(u, status) == Reply("authenticate", u, NULL, status)

\* exceptions.AuthenticationFailed(detail)
AuthFailure(detail) == [AuthReply(NoUser, 401) EXCEPT !.detail = detail]

\* cache.get(cache_key): the JWKS entry, while its timeout has not passed
CachedJwks == jwks.cached /\ now < jwks.cached_at + JwksTtlHours

\* Auth0JSONWebTokenAuthentication.get_signing_key: the JWKS is fetched when the
\* cache holds none and cached; the key of the token's kid is looked up in it
GetSigningKey(tok) ==
    LET keys == IF CachedJwks THEN jwks.keys ELSE jwks.published
        after == IF CachedJwks THEN [jwks EXCEPT !.fetches = 0]
                 ELSE [jwks EXCEPT !.cached = TRUE, !.keys = jwks.published,
                                   !.cached_at = now, !.fetches = 1]
    IN IF ~CachedJwks /\ ~jwks.reachable
       THEN [jwks |-> [jwks EXCEPT !.fetches = 1], found |-> FALSE,
             detail |-> "Authentication failed: JWKS request"]
       ELSE IF tok.kid = NULL
       THEN [jwks |-> after, found |-> FALSE,
             detail |-> "Authentication failed: Token missing key ID"]
       ELSE IF tok.kid \notin keys
       THEN [jwks |-> after, found |-> FALSE,
             detail |-> "Authentication failed: Unable to find matching key"]
       ELSE [jwks |-> after, found |-> TRUE, detail |-> NULL]

JwtDecodeNoExpiry(tok) ==
    IF ~tok.signed \/ ~tok.audience THEN "Invalid token" ELSE NULL

\* jwt.decode and the except clauses of authenticate: the signature, then exp,
\* then audience and issuer; NULL when the payload is returned
JwtDecode(tok) ==
    IF ~tok.signed THEN "Invalid token"
    ELSE IF tok.expired THEN "Token has expired"
    ELSE IF ~tok.audience THEN "Invalid token"
    ELSE NULL

\* Auth0JSONWebTokenAuthentication.update_user_from_token: the lists of the user
\* are replaced by the token's namespaced claims ([] when absent)
UpdateUserFromToken(user, tok) ==
    [user EXCEPT !.auth0_roles = tok.claims.roles,
                 !.auth0_permissions = tok.claims.permissions,
                 !.roles_fetch = NoFetch, !.perms_fetch = NoFetch]

\* Auth0JSONWebTokenAuthentication.authenticate: decode_jwt, get_or_create_user
\* (by Auth0 id, else by email and linked, else created), update_user_from_token;
\* every exception (no email, two users of the email, a username already taken)
\* becomes AuthenticationFailed
Authenticate(tok) ==
    LET bySub == UsersWith("auth0_user_id", tok.sub)
        byEmail == UsersWith("email", tok.email)
        pk == Cardinality(DOMAIN users) + 1
        key == GetSigningKey(tok)
        detail == IF key.found THEN JwtDecode(tok) ELSE key.detail
    IN
    /\ jwks' = key.jwks
    /\ IF detail # NULL
       THEN /\ reply' = AuthFailure(detail)
            /\ UNCHANGED users
       ELSE IF bySub # {}
       THEN \E u \in bySub :
              /\ users' = [users EXCEPT ![u] = UpdateUserFromToken(@, tok)]
              /\ reply' = AuthReply(u, 200)
       ELSE IF tok.email = NULL
       THEN /\ reply' = AuthFailure("Authentication failed: Cannot create user without email")
            /\ UNCHANGED users
       ELSE IF Cardinality(byEmail) > 1
       THEN /\ reply' = AuthFailure("Authentication failed: MultipleObjectsReturned")
            /\ UNCHANGED users
       ELSE IF byEmail # {}
       THEN \E u \in byEmail :
              /\ users' = [users EXCEPT ![u] =
                              UpdateUserFromToken([@ EXCEPT !.auth0_user_id = tok.sub], tok)]
              /\ reply' = AuthReply(u, 200)
       ELSE IF UsersWith("username", tok.email) # {}
       THEN /\ reply' = AuthFailure("Authentication failed: IntegrityError")
            /\ UNCHANGED users
       ELSE /\ pk <= MaxUsers
            /\ users' = users @@
                   (pk :> UpdateUserFromToken(NewUser(tok.sub, tok.email, FALSE), tok))
            /\ reply' = AuthReply(pk, 200)
    /\ UNCHANGED <<now, provider, vendors, vendor_users, inquiries, pc, ctx, nfetch,
                   management_token>>

\* the provider rotates its signing keys: another set of key ids is published
PublishKeys(ks) ==
    /\ ks # {} /\ ks # jwks.published
    /\ jwks' = [jwks EXCEPT !.published = ks]
    /\ UNCHANGED <<now, users, provider, vendors, vendor_users, inquiries, pc, ctx, nfetch,
                   reply, management_token>>

\* the JWKS endpoint goes down or comes back: requests.get raises while it is down
JwksOutage(reachable) ==
    /\ jwks.reachable # reachable
    /\ jwks' = [jwks EXCEPT !.reachable = reachable]
    /\ UNCHANGED <<now, users, provider, vendors, vendor_users, inquiries, pc, ctx, nfetch,
                   reply, management_token>>

\* ------------------------------------------------- login callback
\* the userinfo of the token a login callback receives
UserInfos == [sub : Subjects, email : {NULL, "a@x", "c@x"}]

\* CallbackView.get with EventUserManager.get_or_create_from_auth0: userinfo
\* without email is refused; the user of the Auth0 id is updated from the
\* userinfo; otherwise a user is created with the email as username, which the
\* unique username refuses when it is taken.  Every outcome is a redirect
LoginCallback(info) ==
    LET bySub == UsersWith("auth0_user_id", info.sub)
        pk == Cardinality(DOMAIN users) + 1
    IN
    /\ IF info.email = NULL
       THEN /\ reply' = Reply("callback", NoUser, NULL, 302)
            /\ UNCHANGED users
       ELSE IF bySub # {}
       THEN \E u \in bySub :
              /\ users' = [users EXCEPT ![u].email = info.email]
              /\ reply' = Reply("callback", u, NULL, 302)
       ELSE IF UsersWith("username", info.email) # {}
       THEN /\ reply' = Reply("callback", NoUser, NULL, 302)
            /\ UNCHANGED users
       ELSE /\ pk <= MaxUsers
            /\ users' = users @@ (pk :> NewUser(info.sub, info.email, FALSE))
            /\ reply' = Reply("callback", pk, NULL, 302)
    /\ UNCHANGED <<now, provider, vendors, vendor_users, inquiries, pc, ctx, nfetch, jwks, management_token>>

\* ------------------------------------------- assign_auth0_roles command
\* Command.handle: the roles of the user with this email are replaced, the
\* permissions too when --permissions is given, and the sync time is set
AssignAuth0Roles(email, roles, permissions) ==
    /\ Cardinality(UsersWith("email", email)) <= 1
    /\ IF UsersWith("email", email) = {}
       THEN /\ UNCHANGED users
            /\ reply' = Reply("assign_auth0_roles", NoUser, NULL, 404)
       ELSE \E u \in UsersWith("email", email) :
              /\ users' = [users EXCEPT ![u] =
                    [@ EXCEPT !.auth0_roles = roles,
                              !.roles_fetch = NoFetch,
                              !.auth0_permissions =
                                  IF permissions # {} THEN permissions ELSE @,
                              !.perms_fetch = IF permissions # {} THEN NoFetch ELSE @,
                              !.last_auth0_sync = now]]
              /\ reply' = Reply("assign_auth0_roles", u, NULL, 200)
    /\ UNCHANGED <<now, provider, vendors, vendor_users, inquiries, pc, ctx, nfetch, jwks, management_token>>

\* ------------------------------------------------- EventUser admin
\* EventUserAdmin, change form: the organizer event role is given or taken
AdminSetOrganizer(u, organizer) ==
    /\ u \in DOMAIN users
    /\ users[u].is_organizer # organizer
    /\ users' = [users EXCEPT ![u].is_organizer = organizer]
    /\ UNCHANGED <<now, provider, vendors, vendor_users, inquiries, pc, ctx, nfetch, reply, jwks, management_token>>

\* ------------------------------------------------- VendorUser table
\* a row of VendorUser: the relationship of a user to a vendor
VendorUserRow(id, v, u, role, active, canEdit, canRespond) ==
    [id |-> id, vendor |-> v, user |-> u, role |-> role, is_active |-> active,
     can_edit_vendor_info |-> canEdit, can_respond_to_inquiries |-> canRespond]

VendorRoles == {"owner", "manager", "employee", "representative"}

UniqueTogetherOff(table, id, v, u) == TRUE

\* VendorUser.Meta.unique_together = ['vendor', 'user']: no other row of the pair
UniqueTogether(table, id, v, u) ==
    \A vu \in table : vu.id # id => ~(vu.vendor = v /\ vu.user = u)

\* VendorUserAdmin, add form: a new row, if the unique constraint allows it
AdminAddVendorUser(v, u, role, active, canEdit, canRespond) ==
    LET id == Cardinality(vendor_users) + 1 IN
    /\ u \in DOMAIN users
    /\ id <= MaxVendorUsers
    /\ IF UniqueTogether(vendor_users, id, v, u)
       THEN /\ vendor_users' = vendor_users \cup
                   {VendorUserRow(id, v, u, role, active, canEdit, canRespond)}
            /\ reply' = Reply("add_vendor_user", u, v, 200)
       ELSE /\ UNCHANGED vendor_users
            /\ reply' = Reply("add_vendor_user", u, v, 400)
    /\ UNCHANGED <<now, users, provider, vendors, inquiries, pc, ctx, nfetch, jwks, management_token>>

\* VendorUserAdmin, change form: the fields of a row are replaced, if the unique
\* constraint allows it
AdminChangeVendorUser(id, u, role, active, canEdit, canRespond) ==
    /\ u \in DOMAIN users
    /\ \E old \in vendor_users :
         /\ old.id = id
         /\ IF UniqueTogether(vendor_users, id, old.vendor, u)
            THEN /\ vendor_users' = (vendor_users \ {old}) \cup
                        {VendorUserRow(id, old.vendor, u, role, active, canEdit, canRespond)}
                 /\ reply' = Reply("change_vendor_user", u, old.vendor, 200)
            ELSE /\ UNCHANGED vendor_users
                 /\ reply' = Reply("change_vendor_user", u, old.vendor, 400)
    /\ UNCHANGED <<now, users, provider, vendors, inquiries, pc, ctx, nfetch, jwks, management_token>>

\* ------------------------------------------------- Vendor admin
\* VendorAdmin, change form: the 'admin' foreign key of the vendor is set or cleared
AdminSetVendorAdmin(v, a) ==
    /\ a \in DOMAIN users \cup {NoUser}
    /\ vendors[v].admin # a
    /\ vendors' = [vendors EXCEPT ![v].admin = a]
    /\ reply' = Reply("change_vendor", a, v, 200)
    /\ UNCHANGED <<now, users, provider, vendor_users, inquiries, pc, ctx, nfetch, jwks, management_token>>

\* ------------------------------------------------- vendor access resolvers
\* EventUser.has_auth0_role / has_auth0_permission: membership in the stored lists
HasAuth0Role(u, role) == role \in users[u].auth0_roles

HasAuth0Permission(u, permission) == permission \in users[u].auth0_permissions

\* vendor_users.filter(user=user, vendor=vendor)
RowsOf(u, v) == {vu \in vendor_users : vu.user = u /\ vu.vendor = v}

\* vendor_users.filter(user=user, vendor=vendor, is_active=True)
ActiveRowsOf(u, v) == {vu \in RowsOf(u, v) : vu.is_active}

\* QuerySet.first(): the row with the lowest primary key
First(rows) == CHOOSE vu \in rows : \A other \in rows : vu.id <= other.id

GetUserRoleAnyRow(u, v) ==
    IF vendors[v].admin = u THEN "owner"
    ELSE IF RowsOf(u, v) # {} THEN First(RowsOf(u, v)).role
    ELSE NULL

\* VendorManagementDetailAPIView.get_user_role
GetUserRole(u, v) ==
    IF vendors[v].admin = u THEN "owner"
    ELSE IF ActiveRowsOf(u, v) # {} THEN First(ActiveRowsOf(u, v)).role
    ELSE NULL

CanUserEditAsStaff(u, v) ==
    \/ vendors[v].admin = u
    \/ ActiveRowsOf(u, v) # {}

\* VendorManagementDetailAPIView.can_user_edit
CanUserEdit(u, v) ==
    \/ vendors[v].admin = u
    \/ \E vu \in ActiveRowsOf(u, v) : vu.can_edit_vendor_info

\* IsVendorOwnerOrStaff.has_object_permission
HasObjectPermission(u, v) ==
    \/ HasAuth0Role(u, "super_admin")
    \/ vendors[v].admin = u
    \/ ActiveRowsOf(u, v) # {}

NotListed == [listed |-> FALSE, role |-> NULL, can_edit |-> FALSE]

\* MyVendorsAPIView.get: the entry of vendor v in the list of user u
MyVendorsEntry(u, v) ==
    IF vendors[v].is_active /\ (vendors[v].admin = u \/ ActiveRowsOf(u, v) # {})
    THEN [listed |-> TRUE,
          role |-> IF vendors[v].admin = u THEN "owner" ELSE "staff",
          can_edit |-> \/ vendors[v].admin = u
                       \/ \E vu \in RowsOf(u, v) : vu.can_edit_vendor_info]
    ELSE NotListed

\* user.managed_vendors.get(vendor=vendor, is_active=True) finds exactly one row;
\* DoesNotExist and MultipleObjectsReturned end in the except branch
GetSucceeds(u, v) == Cardinality(ActiveRowsOf(u, v)) = 1

\* Auth0VendorPermissionChecker.get_vendor_permissions
CheckerGetVendorPermissions(u, v) ==
    IF GetSucceeds(u, v)
    THEN GetVendorPermissions(First(ActiveRowsOf(u, v)).role)
    ELSE {}

\* Auth0VendorPermissionChecker.has_vendor_permission
HasVendorPermission(u, v, permission) ==
    IF GetSucceeds(u, v)
    THEN permission \in GetVendorPermissions(First(ActiveRowsOf(u, v)).role)
    ELSE FALSE

\* Auth0VendorPermissionChecker.has_vendor_role
HasVendorRole(u, v, role) ==
    IF GetSucceeds(u, v)
    THEN First(ActiveRowsOf(u, v)).role = role
    ELSE FALSE

\* EventUser.can_manage_vendor (is_vendor_representative holds whenever the get
\* finds a row, since managed_vendors.exists())
CanManageVendor(u, v) ==
    IF \A w \in Vendors : RowsOf(u, w) = {} THEN FALSE
    ELSE IF GetSucceeds(u, v)
    THEN First(ActiveRowsOf(u, v)).can_edit_vendor_info
    ELSE FALSE

\* EventUser.get_vendor_role
GetVendorRole(u, v) ==
    IF GetSucceeds(u, v) THEN First(ActiveRowsOf(u, v)).role ELSE NULL

\* VendorInquiryResponseAPIView.patch, the row that lets the user respond
RespondRows(u, v) == {vu \in ActiveRowsOf(u, v) : vu.can_respond_to_inquiries}

AllVendorPermissions == UNION {GetVendorPermissions(role) : role \in VendorRoles}

\* every resolver applied to the pair (u, v), and the answers kept in the reply
ResolveVendorAccess(u, v) ==
    /\ u \in DOMAIN users
    /\ reply' = [Reply("resolve", u, v, 200) EXCEPT !.grant =
          [is_owner |-> vendors[v].admin = u,
           super_admin |-> HasAuth0Role(u, "super_admin"),
           relationship |-> IF RowsOf(u, v) = {} THEN "none"
                            ELSE IF ActiveRowsOf(u, v) = {} THEN "inactive"
                            ELSE "active",
           tier |-> GetUserRole(u, v),
           can_edit |-> CanUserEdit(u, v),
           object_access |-> HasObjectPermission(u, v),
           listed |-> MyVendorsEntry(u, v),
           permissions |-> CheckerGetVendorPermissions(u, v),
           has_permission |-> {p \in AllVendorPermissions : HasVendorPermission(u, v, p)},
           has_role |-> {role \in VendorRoles : HasVendorRole(u, v, role)},
           vendor_role |-> GetVendorRole(u, v),
           can_manage |-> CanManageVendor(u, v),
           can_respond |-> RespondRows(u, v) # {}]]
    /\ UNCHANGED <<now, users, provider, vendors, vendor_users, inquiries, pc, ctx, nfetch, jwks, management_token>>

\* ------------------------------------------------- vendor inquiries
\* VendorInquiry.STATUS_CHOICES
InquiryStatuses ==
    {"pending", "in-review", "responded", "waiting on customer", "booked",
     "declined", "expired"}

\* Auth0LoginRequiredMixin.dispatch lets the request of this user through
LoggedIn(u) == u \in DOMAIN users /\ users[u].auth0_user_id # NULL

\* VendorInquiryAPIView.post: an inquiry to an active, verified vendor is created
\* with the default status
InquiryCreate(u, v) ==
    /\ u \in DOMAIN users
    /\ IF ~LoggedIn(u)
       THEN /\ reply' = Reply("inquiry_create", u, v, 302)
            /\ UNCHANGED inquiries
       ELSE IF ~(vendors[v].is_active /\ vendors[v].is_verified)
       THEN /\ reply' = Reply("inquiry_create", u, v, 404)
            /\ UNCHANGED inquiries
       ELSE /\ Len(inquiries) < MaxInquiries
            /\ inquiries' = Append(inquiries, [vendor |-> v, status |-> "pending"])
            /\ reply' = Reply("inquiry_create", u, v, 200)
    /\ UNCHANGED <<now, users, provider, vendors, vendor_users, pc, ctx, nfetch, jwks, management_token>>

\* VendorInquiryResponseAPIView.patch: after the permission check the status of
\* the in-memory inquiry is set to the value of the request, then timezone.now()
\* is evaluated; the module imports no 'timezone', the NameError is caught by
\* 'except Exception' and inquiry.save() is never reached
InquiryResponsePatch(u, i, status) ==
    /\ u \in DOMAIN users
    /\ IF ~LoggedIn(u)
       THEN reply' = Reply("inquiry_response", u, NULL, 302)
       ELSE IF i \notin DOMAIN inquiries
       THEN reply' = Reply("inquiry_response", u, NULL, 404)
       ELSE IF RespondRows(u, inquiries[i].vendor) = {}
       THEN reply' = Reply("inquiry_response", u, inquiries[i].vendor, 403)
       ELSE LET inquiry == [inquiries[i] EXCEPT !.status = status] IN
            reply' = Reply("inquiry_response", u, inquiry.vendor, 400)
    /\ UNCHANGED <<now, users, provider, vendors, vendor_users, inquiries, pc, ctx, nfetch, jwks, management_token>>

\* VendorInquiryAdmin, change form: 'status' is an editable choice field
AdminChangeInquiry(i, status) ==
    /\ i \in DOMAIN inquiries
    /\ status \in InquiryStatuses
    /\ inquiries[i].status # status
    /\ inquiries' = [inquiries EXCEPT ![i].status = status]
    /\ reply' = Reply("change_inquiry", NoUser, inquiries[i].vendor, 200)
    /\ UNCHANGED <<now, users, provider, vendors, vendor_users, pc, ctx, nfetch, jwks, management_token>>

\* ------------------------------------------------- checker functions
\* Auth0PermissionChecker.has_role, for an authenticated user object
HasRole(user, role) ==
    IF user.auth0_roles = {} THEN FALSE
    ELSE role \in user.auth0_roles

HasAnyPermissionOfAll(user, permissions) ==
    IF user.auth0_permissions = {} THEN FALSE
    ELSE \A perm \in permissions : perm \in user.auth0_permissions

\* Auth0PermissionChecker.has_any_permission, for an authenticated user object
HasAnyPermission(user, permissions) ==
    IF user.auth0_permissions = {} THEN FALSE
    ELSE \E perm \in permissions : perm \in user.auth0_permissions

HasAllPermissionsOfAny(user, permissions) ==
    IF user.auth0_permissions = {} THEN FALSE
    ELSE \E perm \in permissions : perm \in user.auth0_permissions

\* Auth0PermissionChecker.has_all_permissions, for an authenticated user object
HasAllPermissions(user, permissions) ==
    IF user.auth0_permissions = {} THEN FALSE
    ELSE \A perm \in permissions : perm \in user.auth0_permissions

\* services Auth0PermissionChecker.user_has_permission, for a user object that
\* has the attribute
UserHasPermission(user, permission) ==
    IF user.auth0_permissions = {} THEN FALSE
    ELSE permission \in user.auth0_permissions

\* services Auth0PermissionChecker.user_has_role
UserHasRole(user, role) ==
    IF user.auth0_roles = {} THEN FALSE
    ELSE role \in user.auth0_roles

\* how the evaluation of a check ends: with a value, or with an exception
Returns(value) == [raised |-> FALSE, value |-> value]

Raises == [raised |-> TRUE, value |-> FALSE]

\* the checks that take one permission or role, and those that take a list
SingleChecks ==
    {"has_permission", "has_role", "user_has_permission", "user_has_role",
     "has_vendor_permission", "has_vendor_role"}

ListChecks == {"has_any_permission", "has_all_permissions"}

\* the checks without argument: the vendor permissions of a pair and the
\* has_permission of the DRF permission classes, by request method
PlainChecks ==
    {"get_vendor_permissions", "IsVendorOwnerOrStaff", "CanManageOwnVendor",
     "IsVendorReadOnly.GET", "IsVendorReadOnly.PUT"}

CheckNames == {"update:own_vendor", "read:vendors", "super_admin"}

Arg(args) == CHOOSE a \in args : TRUE

\* the check fn evaluated for request.user = u (NoUser: AnonymousUser, which has
\* is_authenticated = False and none of the EventUser attributes) on vendor v1
CheckOutcome(fn, u, args) ==
    CASE fn = "has_permission" ->
           IF u = NoUser THEN Returns(FALSE)
           ELSE Returns(HasPermission(users[u], Arg(args)))
      [] fn = "has_role" ->
           IF u = NoUser THEN Returns(FALSE)
           ELSE Returns(HasRole(users[u], Arg(args)))
      [] fn = "has_any_permission" ->
           IF u = NoUser THEN Returns(FALSE)
           ELSE Returns(HasAnyPermission(users[u], args))
      [] fn = "has_all_permissions" ->
           IF u = NoUser THEN Returns(FALSE)
           ELSE Returns(HasAllPermissions(users[u], args))
      [] fn = "user_has_permission" ->
           IF u = NoUser THEN Raises
           ELSE Returns(UserHasPermission(users[u], Arg(args)))
      [] fn = "user_has_role" ->
           IF u = NoUser THEN Raises
           ELSE Returns(UserHasRole(users[u], Arg(args)))
      [] fn = "has_vendor_permission" ->
           IF u = NoUser THEN Returns(FALSE)
           ELSE Returns(HasVendorPermission(u, "v1", Arg(args)))
      [] fn = "has_vendor_role" ->
           IF u = NoUser THEN Returns(FALSE)
           ELSE Returns(HasVendorRole(u, "v1", Arg(args)))
      [] fn = "get_vendor_permissions" ->
           IF u = NoUser THEN Returns(FALSE)
           ELSE Returns(CheckerGetVendorPermissions(u, "v1") # {})
      [] fn \in {"IsVendorOwnerOrStaff", "CanManageOwnVendor"} ->
           IF u = NoUser THEN Returns(FALSE)
           ELSE Returns(HasAuth0Permission(u, "update:own_vendor"))
      [] fn = "IsVendorReadOnly.GET" ->
           IF u = NoUser THEN Raises
           ELSE Returns(HasAuth0Permission(u, "read:vendors"))
      [] fn = "IsVendorReadOnly.PUT" ->
           IF u = NoUser THEN Raises
           ELSE Returns(HasAuth0Permission(u, "update:own_vendor"))

\* a check is evaluated for the user of a request and its outcome is the answer;
\* an exception that escapes a permission class is a server error
EvaluateCheck(fn, u, args) ==
    /\ u \in DOMAIN users \cup {NoUser}
    /\ fn \in SingleChecks \cup ListChecks \cup PlainChecks
    /\ args \subseteq CheckNames
    /\ fn \in SingleChecks => Cardinality(args) = 1
    /\ fn \in PlainChecks => args = {}
    /\ LET outcome == CheckOutcome(fn, u, args) IN
       reply' = [Reply("check", u, NULL, IF outcome.raised THEN 500 ELSE 200)
                    EXCEPT !.check = [fn |-> fn, args |-> args,
                                      raised |-> outcome.raised,
                                      value |-> outcome.value]]
    /\ UNCHANGED <<now, users, provider, vendors, vendor_users, inquiries, pc, ctx, nfetch, jwks, management_token>>

\* ------------------------------------------------- guarded views
\* the response of a guarded view; check.value tells whether the view behind
\* the guard was called
GuardReply(fn, u, args, status) ==
    [Reply("guard", u, NULL, status) EXCEPT
        !.check = [fn |-> fn, args |-> args, raised |-> FALSE, value |-> status = 200]]

\* the request user is AnonymousUser or a user of the table
RequestUsers == DOMAIN users \cup {NoUser}

\* require_auth0_permission(permission): 401 for an anonymous request, 403 when
\* the user lacks the permission, else the view
RequireAuth0Permission(u, permission) ==
    /\ u \in RequestUsers
    /\ reply' = GuardReply("require_auth0_permission", u, {permission},
                           IF u = NoUser THEN 401
                           ELSE IF ~HasAuth0Permission(u, permission) THEN 403
                           ELSE 200)
    /\ UNCHANGED <<now, users, provider, vendors, vendor_users, inquiries, pc, ctx, nfetch,
                   jwks, management_token>>

\* require_auth0_role(role)
RequireAuth0Role(u, role) ==
    /\ u \in RequestUsers
    /\ reply' = GuardReply("require_auth0_role", u, {role},
                           IF u = NoUser THEN 401
                           ELSE IF ~HasAuth0Role(u, role) THEN 403
                           ELSE 200)
    /\ UNCHANGED <<now, users, provider, vendors, vendor_users, inquiries, pc, ctx, nfetch,
                   jwks, management_token>>

\* require_any_auth0_role(roles)
RequireAnyAuth0Role(u, roles) ==
    /\ u \in RequestUsers
    /\ reply' = GuardReply("require_any_auth0_role", u, roles,
                           IF u = NoUser THEN 401
                           ELSE IF ~(\E role \in roles : HasAuth0Role(u, role)) THEN 403
                           ELSE 200)
    /\ UNCHANGED <<now, users, provider, vendors, vendor_users, inquiries, pc, ctx, nfetch,
                   jwks, management_token>>

\* Auth0PermissionRequiredMixin.has_permission, lines 23-24, for AnonymousUser:
\* False at once, whatever permission_required is
AnonymousMixinRequest(r, required) ==
    /\ pc[r] = "idle"
    /\ pc' = [pc EXCEPT ![r] = "done"]
    /\ ctx' = [ctx EXCEPT ![r] = [IdleCtx EXCEPT !.kind = "mixin", !.required = required,
                                     !.allowed = FALSE]]
    /\ UNCHANGED <<now, users, provider, vendors, vendor_users, inquiries, nfetch, reply,
                   jwks, management_token>>

\* Auth0PermissionRequiredMixin.dispatch: handle_no_permission (403) when
\* has_permission returned False, else the view; the request ends
MixinDispatch(r) ==
    /\ pc[r] = "done"
    /\ ctx[r].kind = "mixin"
    /\ reply' = GuardReply("Auth0PermissionRequiredMixin", ctx[r].user,
                           IF ctx[r].required = NULL THEN {} ELSE {ctx[r].required},
                           IF ctx[r].allowed THEN 200 ELSE 403)
    /\ pc' = [pc EXCEPT ![r] = "idle"]
    /\ ctx' = [ctx EXCEPT ![r] = IdleCtx]
    /\ UNCHANGED <<now, users, provider, vendors, vendor_users, inquiries, nfetch,
                   jwks, management_token>>

\* ------------------------------------------------- vendor edit
\* the business names a PUT can carry
BusinessNames == {"n0", "n1"}

\* VendorManagementDetailAPIView.put: IsAuthenticated, then
\* IsVendorOwnerOrStaff.has_permission (update:own_vendor), then the object
\* permission of get_object, then can_user_edit; only then the vendor is
\* changed and saved.  status is what the framework answers an anonymous request
VendorPut(u, v, name, status) ==
    /\ u \in RequestUsers
    /\ status \in {401, 403}
    /\ IF u = NoUser
       THEN /\ reply' = Reply("vendor_put", u, v, status)
            /\ UNCHANGED vendors
       ELSE IF ~HasAuth0Permission(u, "update:own_vendor")
               \/ ~HasObjectPermission(u, v)
               \/ ~CanUserEdit(u, v)
       THEN /\ reply' = Reply("vendor_put", u, v, 403)
            /\ UNCHANGED vendors
       ELSE /\ vendors' = [vendors EXCEPT ![v].business_name = name]
            /\ reply' = Reply("vendor_put", u, v, 200)
    /\ UNCHANGED <<now, users, provider, vendor_users, inquiries, pc, ctx, nfetch,
                   jwks, management_token>>

\* ------------------------------------------------------ specifications
RequestStep(r) ==
    \/ \E u \in DOMAIN users, required \in {NULL, "update:own_vendor"} :
          MixinHasPermission(r, u, required)
    \/ \E u \in DOMAIN users : ProfileGet(r, u)
    \/ \E u \in DOMAIN users : RefreshPost(r, u)
    \/ \E u \in DOMAIN users : ManagementSync(r, u)
    \/ NeedsSyncCheck(r)
    \/ ServiceSyncStart(r)
    \/ ServiceSyncCompute(r)
    \/ ServiceSyncSave(r)
    \/ ManagementSyncStart(r)
    \/ \E ok \in BOOLEAN : ManagementToken(r, ok)
    \/ \E ok \in BOOLEAN : FetchRoles(r, ok)
    \/ \E ok \in BOOLEAN : FetchPermissions(r, ok)
    \/ ManagementSyncSave(r)
    \/ Decide(r)
    \/ Finish(r)

\* one request at a time, the clock and the provider
NextStore ==
    \/ Tick
    \/ \E snap \in ProviderSnapshots : ProviderChange("auth0|a", snap)
    \/ RequestStep("r1")

SpecStore == Init /\ [][NextStore]_vars

\* syncs of users whose vendor relationships are added, deactivated and reactivated
NextUnion ==
    \/ \E snap \in ProviderSnapshots : ProviderChange("auth0|a", snap)
    \/ \E role \in {"employee", "manager"}, active \in BOOLEAN :
          AdminAddVendorUser("v1", 1, role, active, FALSE, TRUE)
    \/ \E active \in BOOLEAN, vu \in vendor_users :
          AdminChangeVendorUser(vu.id, vu.user, vu.role, active, FALSE, TRUE)
    \/ \E organizer \in BOOLEAN : AdminSetOrganizer(1, organizer)
    \/ \E u \in DOMAIN users : RefreshPost("r1", u)
    \/ \E u \in DOMAIN users : ManagementSync("r1", u)
    \/ ServiceSyncStart("r1")
    \/ ServiceSyncCompute("r1")
    \/ ServiceSyncSave("r1")
    \/ ManagementSyncStart("r1")
    \/ \E ok \in BOOLEAN : ManagementToken("r1", ok)
    \/ \E ok \in BOOLEAN : FetchRoles("r1", ok)
    \/ \E ok \in BOOLEAN : FetchPermissions("r1", ok)
    \/ ManagementSyncSave("r1")
    \/ Decide("r1")
    \/ Finish("r1")

SpecUnion == Init /\ [][NextUnion]_vars

\* token authentication, the role command and the refresh of one request
NextAuth ==
    \/ \E tok \in Tokens : Authenticate(tok)
    \/ \E email \in {"a@x", "c@x"}, permissions \in {{}, {"read:vendors"}} :
          AssignAuth0Roles(email, {"super_admin"}, permissions)
    \/ \E u \in DOMAIN users : RefreshPost("r1", u)
    \/ ServiceSyncStart("r1")
    \/ ServiceSyncCompute("r1")
    \/ ServiceSyncSave("r1")
    \/ Decide("r1")
    \/ Finish("r1")

SpecAuth == Init /\ [][NextAuth]_vars

\* the steps of the handlers that refresh or sync
SyncStep(r) ==
    \/ ProfileGet(r, 1)
    \/ ManagementSync(r, 1)
    \/ NeedsSyncCheck(r)
    \/ ServiceSyncStart(r)
    \/ ServiceSyncCompute(r)
    \/ ServiceSyncSave(r)
    \/ ManagementSyncStart(r)
    \/ \E ok \in BOOLEAN : ManagementToken(r, ok)
    \/ \E ok \in BOOLEAN : FetchRoles(r, ok)
    \/ \E ok \in BOOLEAN : FetchPermissions(r, ok)
    \/ ManagementSyncSave(r)
    \/ Decide(r)
    \/ Finish(r)

\* two requests for the same user in flight at once
NextConcurrent ==
    \/ \E snap \in {x \in ProviderSnapshots : "super_admin" \notin x.roles} :
          ProviderChange("auth0|a", snap)
    \/ \E r \in Requests : SyncStep(r)

SpecConcurrent == Init /\ [][NextConcurrent]_vars

\* vendor administration, relationships, access resolution and inquiries
NextVendor ==
    \/ \E a \in {NoUser, 1, 2} : AdminSetVendorAdmin("v1", a)
    \/ AssignAuth0Roles("a@x", {"super_admin"}, {})
    \/ \E role \in VendorRoles, active, canEdit, canRespond \in BOOLEAN :
          AdminAddVendorUser("v1", 1, role, active, canEdit, canRespond)
    \/ \E vu \in vendor_users, active \in BOOLEAN :
          AdminChangeVendorUser(vu.id, vu.user, vu.role, active,
                                vu.can_edit_vendor_info, vu.can_respond_to_inquiries)
    \/ \E u \in DOMAIN users : ResolveVendorAccess(u, "v1")
    \/ \E u \in DOMAIN users : InquiryCreate(u, "v1")
    \/ \E u \in DOMAIN users, status \in InquiryStatuses :
          InquiryResponsePatch(u, 1, status)
    \/ \E status \in InquiryStatuses : AdminChangeInquiry(1, status)

SpecVendor == Init /\ [][NextVendor]_vars

\* the lists a user can hold when a check is evaluated
InitCheck ==
    /\ now = 0
    /\ \E roles \in {{}, {"super_admin"}},
          permissions \in SUBSET {"update:own_vendor", "read:vendors"} :
          users = (1 :> [NewUser("auth0|a", "a@x", FALSE) EXCEPT
                            !.auth0_roles = roles,
                            !.auth0_permissions = permissions])
    /\ provider = [s \in Subjects |-> [roles |-> {}, permissions |-> {}]]
    /\ vendors = [v \in Vendors |-> [admin |-> NoUser, is_active |-> TRUE,
                                     is_verified |-> TRUE, business_name |-> "n0"]]
    /\ vendor_users = {}
    /\ inquiries = <<>>
    /\ pc = [r \in Requests |-> "idle"]
    /\ ctx = [r \in Requests |-> IdleCtx]
    /\ nfetch = 0
    /\ reply = NoReply
    /\ jwks = NoJwks
    /\ management_token = NoToken

\* the checks evaluated for a user and for an anonymous request
NextCheck ==
    \E fn \in SingleChecks \cup ListChecks \cup PlainChecks,
       u \in DOMAIN users \cup {NoUser}, args \in SUBSET CheckNames :
       EvaluateCheck(fn, u, args)

SpecCheck == InitCheck /\ [][NextCheck]_vars

\* views behind the permission mixin, for users whose lists the role command
\* has set and whose sync is due again
NextDegrade ==
    \/ Tick
    \/ \E email \in {"a@x", "b@x"} :
          AssignAuth0Roles(email, {"vendor_admin"}, {"update:own_vendor"})
    \/ \E u \in DOMAIN users, required \in {NULL, "update:own_vendor", "read:vendors"} :
          MixinHasPermission("r1", u, required)
    \/ NeedsSyncCheck("r1")
    \/ ServiceSyncStart("r1")
    \/ ServiceSyncCompute("r1")
    \/ ServiceSyncSave("r1")
    \/ Decide("r1")
    \/ Finish("r1")

SpecDegrade == Init /\ [][NextDegrade]_vars

\* the tokens of subjects that sign in with the email of an existing user
LoginTokens ==
    [kid : {"k1"}, signed : {TRUE}, expired : BOOLEAN, audience : {TRUE},
     sub : Subjects,
     email : {NULL, "a@x", "b@x", "c@x"},
     claims : {[roles |-> {}, permissions |-> {}],
               [roles |-> {"vendor_admin"}, permissions |-> {"update:own_vendor"}]}]

\* token authentications and login callbacks
NextLogin ==
    \/ \E tok \in LoginTokens : Authenticate(tok)
    \/ \E info \in UserInfos : LoginCallback(info)

SpecLogin == Init /\ [][NextLogin]_vars

\* tokens of every kind for one subject: key ids the provider may or may not
\* publish, good and bad signatures, expired or not, right or wrong audience
KeyTokens ==
    [kid : KeyIds \cup {NULL}, signed : BOOLEAN, expired : BOOLEAN, audience : BOOLEAN,
     sub : {"auth0|a"},
     email : {NULL, "a@x"},
     claims : {[roles |-> {"vendor_admin"}, permissions |-> {"update:own_vendor"}]}]

\* token validation while the clock runs, the keys rotate and the JWKS endpoint
\* goes down and comes back
NextKeys ==
    \/ Tick
    \/ \E ks \in SUBSET KeyIds : PublishKeys(ks)
    \/ \E reachable \in BOOLEAN : JwksOutage(reachable)
    \/ \E tok \in KeyTokens : Authenticate(tok)

SpecKeys == Init /\ [][NextKeys]_vars

\* syncs of one user on the Auth0UserSync instance the process keeps, over the
\* hours of a management token's life and beyond
NextToken ==
    \/ Tick
    \/ NewInstance
    \/ \E snap \in ProviderSnapshots : ProviderChange("auth0|a", snap)
    \/ SharedManagementSync("r1", 1)
    \/ ManagementSyncStart("r1")
    \/ \E ok \in BOOLEAN : ManagementToken("r1", ok)
    \/ \E ok \in BOOLEAN : FetchRoles("r1", ok)
    \/ \E ok \in BOOLEAN : FetchPermissions("r1", ok)
    \/ ManagementSyncSave("r1")
    \/ Decide("r1")
    \/ Finish("r1")

SpecToken == Init /\ [][NextToken]_vars

\* the steps a request in flight takes by itself
LiveStep(r) ==
    \/ NeedsSyncCheck(r)
    \/ ServiceSyncStart(r)
    \/ ServiceSyncCompute(r)
    \/ ServiceSyncSave(r)
    \/ ManagementSyncStart(r)
    \/ \E ok \in BOOLEAN : ManagementToken(r, ok)
    \/ \E ok \in BOOLEAN : FetchRoles(r, ok)
    \/ \E ok \in BOOLEAN : FetchPermissions(r, ok)
    \/ ManagementSyncSave(r)
    \/ Decide(r)
    \/ Finish(r)

\* requests that sync, one at a time, with a provider that may stay silent; a
\* sync is started while the fetches of the behaviour are not used up
NextLive ==
    \/ Tick
    \/ \E u \in DOMAIN users : ProfileGet("r1", u)
    \/ \E u \in DOMAIN users : nfetch < MaxFetch /\ ManagementSync("r1", u)
    \/ \E u \in DOMAIN users : nfetch < MaxFetch /\ SharedManagementSync("r1", u)
    \/ LiveStep("r1")
    \/ ProviderSilent("r1")

\* the worker runs a request in flight on: no step it can take is put off for ever
SpecLive == Init /\ [][NextLive]_vars /\ WF_vars(LiveStep("r1"))

\* a role list waits for its permission list
InitRoles ==
    /\ now = 0
    /\ users = (1 :> NewUser("auth0|a", "a@x", FALSE))
    /\ provider = [s \in Subjects |-> [roles |-> {}, permissions |-> {}]]
    /\ vendors = [v \in Vendors |-> [admin |-> NoUser, is_active |-> TRUE,
                                     is_verified |-> TRUE, business_name |-> "n0"]]
    /\ vendor_users = {}
    /\ inquiries = <<>>
    /\ pc = [r \in Requests |-> "idle"]
    /\ ctx = [r \in Requests |-> IdleCtx]
    /\ nfetch = 0
    /\ \E roles \in RoleLists :
          reply = [Reply("roles", NoUser, NULL, 0) EXCEPT
                      !.check = [fn |-> "_get_permissions_for_roles", args |-> roles,
                                 raised |-> FALSE, value |-> <<>>]]
    /\ jwks = NoJwks
    /\ management_token = NoToken

\* _get_permissions_for_roles is applied to the role list
PermissionsForRoles ==
    /\ reply.op = "roles"
    /\ reply' = [reply EXCEPT !.op = "permissions", !.status = 200,
                              !.check.value = GetPermissionsForRoleList(reply.check.args)]
    /\ UNCHANGED <<now, users, provider, vendors, vendor_users, inquiries, pc, ctx, nfetch,
                   jwks, management_token>>

NextRoles == PermissionsForRoles

SpecRoles == InitRoles /\ [][NextRoles]_vars

\* views behind the decorators and behind the permission mixin, requested by
\* users and by anonymous clients; the role command runs between requests
NextGuard ==
    \/ \E roles \in {{}, {"vendor_admin"}} :
          pc["r1"] = "idle" /\ AssignAuth0Roles("a@x", roles, {"update:own_vendor"})
    \/ \E u \in RequestUsers, permission \in {"update:own_vendor", "read:vendors"} :
          RequireAuth0Permission(u, permission)
    \/ \E u \in RequestUsers, role \in {"vendor_admin", "user"} :
          RequireAuth0Role(u, role)
    \/ \E u \in RequestUsers, roles \in SUBSET {"vendor_admin", "super_admin"} :
          RequireAnyAuth0Role(u, roles)
    \/ \E u \in DOMAIN users, required \in {NULL, "update:own_vendor", "read:vendors"} :
          MixinHasPermission("r1", u, required)
    \/ \E required \in {NULL, "update:own_vendor"} : AnonymousMixinRequest("r1", required)
    \/ NeedsSyncCheck("r1")
    \/ ServiceSyncStart("r1")
    \/ ServiceSyncCompute("r1")
    \/ ServiceSyncSave("r1")
    \/ Decide("r1")
    \/ MixinDispatch("r1")

SpecGuard == Init /\ [][NextGuard]_vars

\* vendor edits by users whose permissions, ownership and relationships change
NextEdit ==
    \/ \E a \in {NoUser, 1, 2} : AdminSetVendorAdmin("v1", a)
    \/ \E email \in {"a@x", "b@x"}, roles \in {{"vendor_admin"}, {"super_admin"}},
          permissions \in {{"update:own_vendor"}, {"read:vendors"}} :
          AssignAuth0Roles(email, roles, permissions)
    \/ \E role \in {"manager", "employee"}, active, canEdit \in BOOLEAN :
          AdminAddVendorUser("v1", 1, role, active, canEdit, FALSE)
    \/ \E vu \in vendor_users, active, canEdit \in BOOLEAN :
          AdminChangeVendorUser(vu.id, vu.user, vu.role, active, canEdit,
                                vu.can_respond_to_inquiries)
    \/ \E u \in RequestUsers, name \in BusinessNames, status \in {401, 403} :
          VendorPut(u, "v1", name, status)

SpecEdit == Init /\ [][NextEdit]_vars

\* ------------------------------------------------------------------ C1
\* request r went through the staleness check of getOrRefresh
Refreshing(r) ==
    /\ ctx[r].kind \in {"mixin", "profile"}
    /\ pc[r] \notin {"idle", "check"}
    /\ ctx[r].kind = "mixin" => ctx[r].required # NULL

\* C1: getOrRefresh (the staleness check followed by the sync) invokes the sync
\* if and only if the user's last sync is null or more than one hour before the
\* check; a user inside the window is not synced, no provider call is made and
\* roles, permissions and last sync are returned, and stored, unchanged.
C1_RefreshIffStale ==
    \A r \in Requests :
      Refreshing(r) =>
        LET last == ctx[r].mem.last_auth0_sync
            stale == last = NeverSynced \/ ctx[r].checkedAt - last > StalenessHours
        IN /\ ctx[r].synced <=> stale
           /\ pc[r] = "done" => (ctx[r].result # "none" <=> stale)
           /\ ~stale =>
                /\ ctx[r].calls = 0
                /\ ctx[r].fetch = NoFetch
                /\ ctx[r].out = ctx[r].mem
                /\ users[ctx[r].user] = ctx[r].mem

\* a user synced exactly one hour ago, holding permissions, is served from the store
C1_Witness ==
    \E r \in Requests :
      /\ Refreshing(r) /\ pc[r] = "done"
      /\ ~ctx[r].synced
      /\ ctx[r].mem.last_auth0_sync # NeverSynced
      /\ ctx[r].checkedAt - ctx[r].mem.last_auth0_sync = StalenessHours
      /\ ctx[r].out.auth0_permissions # {}

\* ------------------------------------------------------------------ C2
\* two user objects with the same roles, permissions and last sync
SameAuthorization(a, b) ==
    /\ a.auth0_roles = b.auth0_roles
    /\ a.auth0_permissions = b.auth0_permissions
    /\ a.last_auth0_sync = b.last_auth0_sync

\* C2: when a provider call of a sync fails (token exchange, roles fetch or
\* permissions fetch), the user's roles, permissions and last sync after the
\* sync are what they were before it.
C2_FailedSyncKeepsState ==
    \A r \in Requests :
      (pc[r] \in {"decide", "done"} /\ ctx[r].failed) =>
        /\ SameAuthorization(ctx[r].out, ctx[r].mem)
        /\ SameAuthorization(users[ctx[r].user], ctx[r].mem)

\* ------------------------------------------------------------------ C3
\* the permissions derived from the active vendor relationships of a user
LocalPermissions(u) ==
    UNION {GetVendorPermissions(vu.role) :
             vu \in {x \in vendor_users : x.user = u /\ x.is_active}}

HasActiveRelationship(u) == \E vu \in vendor_users : vu.user = u /\ vu.is_active

\* C3: after a successful sync the user's permissions are the union of the
\* provider-sourced permissions and the permissions derived from the user's
\* active vendor relationships; inactive relationships contribute nothing.
C3_UnionWithActiveRelationships ==
    [][\A r \in Requests :
         /\ (ManagementSyncSave(r) /\ ~ctx[r].failed) =>
               users'[ctx[r].user].auth0_permissions =
                   ctx[r].permissions \cup LocalPermissions(ctx[r].user)
         /\ ServiceSyncCompute(r) =>
               ctx'[r].out.auth0_permissions =
                   GetPermissionsForRoles(
                       {"user"}
                       \cup (IF ctx[r].mem.is_organizer THEN {"event_organizer"} ELSE {})
                       \cup (IF HasActiveRelationship(ctx[r].user)
                             THEN {"vendor_representative"} ELSE {}))]_vars

\* ------------------------------------------------------------------ C4
\* C4: whatever the interleaving of two syncs of one user, the stored row and
\* the user object a request goes on with never hold a role list of one fetch
\* and a permission list of another.
C4_NoTornState ==
    /\ \A u \in DOMAIN users : users[u].roles_fetch = users[u].perms_fetch
    /\ \A r \in Requests :
         pc[r] \in {"decide", "done"} =>
            ctx[r].out.roles_fetch = ctx[r].out.perms_fetch

\* two syncs of one user overlapped, fetched different roles and both saved
C4_Witness ==
    \E r1, r2 \in Requests :
      /\ r1 # r2
      /\ ctx[r1].user = ctx[r2].user
      /\ pc[r1] \in {"decide", "done"} /\ pc[r2] \in {"decide", "done"}
      /\ ctx[r1].result = "true" /\ ctx[r2].result = "true"
      /\ ctx[r1].mem = ctx[r2].mem
      /\ ctx[r1].roles # ctx[r2].roles
      /\ users[ctx[r1].user].roles_fetch = ctx[r2].fetch

\* ------------------------------------------------------------------ C5
\* C5: of two concurrent refresh requests that read the same stale row of a
\* user, at most one performs the fetch.
C5_SingleFlight ==
    \A r1, r2 \in Requests :
      (/\ r1 # r2
       /\ ctx[r1].kind = "profile" /\ ctx[r2].kind = "profile"
       /\ ctx[r1].user = ctx[r2].user
       /\ ctx[r1].mem = ctx[r2].mem)
      => ~(ctx[r1].fetch # NoFetch /\ ctx[r2].fetch # NoFetch)

\* ------------------------------------------------------------------ C6
\* C6: a user's stored roles, permissions and last sync change only by the save
\* of a sync or by the administrative role command; every other operation, token
\* authentication in particular, leaves them as they are.
C6_OnlySyncWritesAuthorization ==
    [][(\E u \in DOMAIN users :
          u \in DOMAIN users' /\ ~SameAuthorization(users'[u], users[u]))
       => \/ \E r \in Requests : ServiceSyncSave(r) \/ ManagementSyncSave(r)
          \/ \E email \in {"a@x", "b@x", "c@x"},
                permissions \in {{}, {"read:vendors"}} :
                AssignAuth0Roles(email, {"super_admin"}, permissions)]_vars

\* ------------------------------------------------------------------ C7
\* the pair of the last resolution, and the relationship row it found
Resolved == reply.op = "resolve"

\* C7: whenever the resolved user is the recorded administrator of the vendor,
\* every resolver answers with the owner grant: the owner tier, the owner's
\* vendor permissions and the edit, manage and respond capabilities, whatever
\* relationship row the pair has.
C7_AdminAlwaysOwner ==
    (Resolved /\ reply.grant.is_owner) =>
        /\ reply.grant.tier = "owner"
        /\ reply.grant.can_edit
        /\ reply.grant.object_access
        /\ reply.grant.listed = [listed |-> TRUE, role |-> "owner", can_edit |-> TRUE]
        /\ reply.grant.vendor_role = "owner"
        /\ reply.grant.permissions = GetVendorPermissions("owner")
        /\ reply.grant.can_manage
        /\ reply.grant.can_respond

AtMostOneActive(table) ==
    \A x \in table, y \in table :
        (x.user = y.user /\ x.vendor = y.vendor /\ x.is_active /\ y.is_active)
            => x = y

\* C9: no step leads to a state with two active relationship rows of one
\* (user, vendor) pair, and an add that is rejected leaves the table as it was.
C9_OneActiveRelationship ==
    [][/\ AtMostOneActive(vendor_users')
       /\ (reply'.op = "add_vendor_user" /\ reply'.status = 400)
             => vendor_users' = vendor_users]_vars

\* an add for a pair that has an active row was rejected and the row is still there
C9_Witness ==
    /\ reply.op = "add_vendor_user"
    /\ reply.status = 400
    /\ ActiveRowsOf(reply.user, reply.vendor) # {}
    /\ Cardinality(RowsOf(reply.user, reply.vendor)) = 1

\* ------------------------------------------------------------------ C10
InquiryEdges ==
    {<<"pending", "responded">>, <<"pending", "declined">>, <<"pending", "expired">>,
     <<"responded", "booked">>, <<"responded", "waiting on customer">>,
     <<"waiting on customer", "responded">>, <<"waiting on customer", "expired">>}

\* C10: an inquiry is created with status pending and its status changes only
\* along pending -> {responded, declined, expired}, responded -> {booked,
\* waiting on customer}, waiting on customer -> {responded, expired}; booked,
\* declined and expired are never left.
C10_StatusStateMachine ==
    [][\A i \in DOMAIN inquiries' :
          IF i \in DOMAIN inquiries
          THEN \/ inquiries'[i].status = inquiries[i].status
               \/ <<inquiries[i].status, inquiries'[i].status>> \in InquiryEdges
          ELSE inquiries'[i].status = "pending"]_vars

\* ------------------------------------------------------------------ C11
\* C11: a response to an inquiry is denied only to a user who holds no grant to
\* respond for the inquiry's vendor; the recorded administrator of the vendor,
\* whose owner grant carries every capability, is never denied, and a denial
\* goes with no active relationship row that has the respond flag.
C11_RespondNeedsGrant ==
    (reply.op = "inquiry_response" /\ reply.status = 403) =>
        /\ RespondRows(reply.user, reply.vendor) = {}
        /\ vendors[reply.vendor].admin # reply.user

\* ------------------------------------------------------------------ C12
\* every permission name of the role table and of the provider
AllPermissionNames ==
    UNION {RolePermissions(role) : role \in {"user", "vendor_representative",
                                             "event_organizer"}}
    \cup UNION {snap.permissions : snap \in ProviderSnapshots}

\* C12: a user whose permission list is empty has no permission at all: the
\* membership check is false for every permission, a view that requires a
\* permission is denied to a request that ends with an empty list, and a user
\* who was never synced and whose provider sync fails still has an empty list.
C12_EmptyListDeniesAll ==
    /\ \A u \in DOMAIN users :
         users[u].auth0_permissions = {} =>
            \A p \in AllPermissionNames : ~HasPermission(users[u], p)
    /\ \A r \in Requests :
         (/\ ctx[r].kind = "mixin" /\ ctx[r].required # NULL /\ pc[r] = "done"
          /\ ctx[r].out.auth0_permissions = {})
         => ~ctx[r].allowed
    /\ \A r \in Requests :
         (/\ pc[r] \in {"decide", "done"} /\ ctx[r].failed
          /\ ctx[r].mem.last_auth0_sync = NeverSynced
          /\ ctx[r].mem.auth0_permissions = {})
         => /\ ctx[r].out.auth0_permissions = {}
            /\ users[ctx[r].user].auth0_permissions = {}

\* a user who was never synced and whose sync fails is denied update:own_vendor
C12_Witness ==
    \E r \in Requests :
      /\ ctx[r].kind = "mixin" /\ pc[r] = "done"
      /\ ctx[r].required = "update:own_vendor"
      /\ ctx[r].mem.last_auth0_sync = NeverSynced
      /\ ctx[r].result = "false"
      /\ ctx[r].out.auth0_permissions = {}
      /\ ~ctx[r].allowed

\* ------------------------------------------------------------------ C13
\* the user and the outcome of the last evaluation of check fn
Checked(fn) ==
    reply.op = "check" /\ reply.check.fn = fn /\ reply.user # NoUser

\* C13 as stated: has_all_permissions is true exactly when every element of the
\* required list is in the user's permission list.
C13_AllIffSubset ==
    Checked("has_all_permissions") =>
        (reply.check.value <=>
            reply.check.args \subseteq users[reply.user].auth0_permissions)

\* C13: has_all_permissions is true exactly when the user's permission list is
\* not empty and every element of the required list is in it; with an empty
\* permission list it is false for every required list, the empty one included.
C13_AllIffSubsetOfNonEmpty ==
    Checked("has_all_permissions") =>
        (reply.check.value <=>
            /\ users[reply.user].auth0_permissions # {}
            /\ reply.check.args \subseteq users[reply.user].auth0_permissions)

\* a required list of two permissions of which the user holds one is refused
C13_Witness ==
    /\ Checked("has_all_permissions")
    /\ Cardinality(reply.check.args) = 2
    /\ Cardinality(reply.check.args \cap users[reply.user].auth0_permissions) = 1
    /\ ~reply.check.value

\* ------------------------------------------------------------------ C14
\* C14: has_any_permission is true exactly when at least one element of the
\* list is in the user's permission list; it is false for the empty list.
C14_AnyIffIntersects ==
    Checked("has_any_permission") =>
        (reply.check.value <=>
            reply.check.args \cap users[reply.user].auth0_permissions # {})

\* a list of two permissions of which the user holds one is accepted
C14_Witness ==
    /\ Checked("has_any_permission")
    /\ Cardinality(reply.check.args) = 2
    /\ Cardinality(reply.check.args \cap users[reply.user].auth0_permissions) = 1
    /\ reply.check.value

\* ------------------------------------------------------------------ C15
\* C15: every check evaluated for an unauthenticated request returns false and
\* none raises.
C15_AnonymousDeniedNoRaise ==
    (reply.op = "check" /\ reply.user = NoUser) =>
        /\ ~reply.check.raised
        /\ ~reply.check.value

\* ------------------------------------------------------------------ C16
\* the tier defaults as the claim lists them, in the permission names of the code
StatedTierDefaults(role) ==
    CASE role \in {"owner", "manager"} ->
           {"read:vendor_info", "read:vendor_inquiries", "edit:vendor_info",
            "manage:vendor_bookings", "respond:vendor_inquiries",
            "view:vendor_analytics", "manage:vendor_team"}
      [] role = "employee" -> {"manage:vendor_bookings", "respond:vendor_inquiries"}
      [] role = "representative" -> {"respond:vendor_inquiries"}
      [] OTHER -> {}

\* the last resolution found one active relationship row
ResolvedActive == Resolved /\ reply.grant.relationship = "active"

\* C16 as stated: the vendor permissions of an active relationship are exactly
\* the listed defaults of its tier: employee {manage bookings, respond to
\* inquiries}, representative {respond to inquiries}, nothing more.
C16_TierDefaultsAsStated ==
    ResolvedActive =>
        /\ reply.grant.permissions = StatedTierDefaults(reply.grant.vendor_role)
        /\ reply.grant.has_permission = StatedTierDefaults(reply.grant.vendor_role)

\* C16: the vendor permissions of an active relationship are the two read
\* permissions, which every tier gets, and the listed defaults of its tier; so
\* an employee may respond to inquiries and may not manage the team.
C16_TierDefaultsWithRead ==
    ResolvedActive =>
        /\ reply.grant.permissions =
              {"read:vendor_info", "read:vendor_inquiries"}
              \cup StatedTierDefaults(reply.grant.vendor_role)
        /\ reply.grant.has_permission = reply.grant.permissions

\* an active employee is allowed to respond to inquiries and denied the team
C16_Witness ==
    /\ ResolvedActive
    /\ reply.grant.vendor_role = "employee"
    /\ "respond:vendor_inquiries" \in reply.grant.has_permission
    /\ "manage:vendor_team" \notin reply.grant.has_permission
    /\ "read:vendor_inquiries" \in reply.grant.has_permission

\* ------------------------------------------------------------------ C17
\* C17: for a user who is not the administrator, every check of a capability
\* follows the flag of the active relationship row: the permission check for
\* respond:vendor_inquiries agrees with the respond flag and the one for
\* edit:vendor_info with the edit flag.
C17_FlagsOverrideTier ==
    (ResolvedActive /\ ~reply.grant.is_owner) =>
        /\ ("respond:vendor_inquiries" \in reply.grant.has_permission)
              <=> reply.grant.can_respond
        /\ ("edit:vendor_info" \in reply.grant.has_permission)
              <=> reply.grant.can_edit

C19_FailedFetchReported ==
    \A r \in Requests :
      (pc[r] \in {"decide", "done"} /\ ctx[r].failed) => ctx[r].result = "false"

WithoutSubject(r) == ctx[r].kind # "none" /\ ctx[r].mem.auth0_user_id = NULL

\* C30: for a user without Auth0 id the sync returns False without a provider
\* call and leaves roles, permissions and last sync unchanged, on the object and
\* in the store; a never-synced user of this kind stays never-synced, so every
\* getOrRefresh for it, at whatever hour, attempts the sync again.
C30_NoSubjectSyncFails ==
    /\ \A u \in DOMAIN users :
         users[u].auth0_user_id = NULL =>
           /\ users[u].last_auth0_sync = NeverSynced
           /\ users[u].auth0_roles = {} /\ users[u].auth0_permissions = {}
    /\ \A r \in Requests :
         WithoutSubject(r) =>
           /\ ctx[r].calls = 0 /\ ctx[r].fetch = NoFetch
           /\ ctx[r].out = ctx[r].mem
           /\ users[ctx[r].user] = ctx[r].mem
           /\ ctx[r].result \in {"none", "false"}
           /\ pc[r] \notin {"s_roles", "s_write", "m_token", "m_roles", "m_perms",
                            "m_write"}
           /\ (pc[r] \in {"decide", "done"} /\
               (ctx[r].kind \in {"refresh", "management"} \/ Refreshing(r)))
                 => ctx[r].synced = Refreshing(r) /\ ctx[r].result = "false"

\* a getOrRefresh for the user without Auth0 id, two hours after the start, has
\* attempted the sync again and got False
C30_Witness ==
    \E r \in Requests :
      /\ WithoutSubject(r) /\ Refreshing(r) /\ pc[r] = "done"
      /\ ctx[r].checkedAt >= 2 * StalenessHours
      /\ ctx[r].synced /\ ctx[r].result = "false"

\* ------------------------------------------------------------------ C26
\* request r takes the step that saves the result of its sync
SavesSync(r) == pc[r] \in {"s_write", "m_write"} /\ pc'[r] = "decide"

\* C26: a sync that succeeds overwrites: when it is saved the stored role list
\* and permission list are exactly the lists of that sync's fetch (nothing of the
\* lists held before is kept), the stored last sync is the time the sync read
\* the clock, the user is not stale at any time of the staleness window that
\* follows, and a getOrRefresh that reads a user inside the window does not sync.
C26_SyncOverwrites ==
    [][\A r \in Requests :
         /\ SavesSync(r) =>
              LET u == ctx[r].user IN
              /\ users'[u].auth0_roles = ctx'[r].out.auth0_roles
              /\ users'[u].auth0_permissions = ctx'[r].out.auth0_permissions
              /\ ctx[r].kind = "management" =>
                   /\ users'[u].auth0_roles = ctx[r].roles
                   /\ users'[u].auth0_permissions = ctx[r].permissions
                   /\ ~ctx[r].failed =>
                        /\ \E snap \in ProviderSnapshots :
                             users'[u].auth0_roles = snap.roles
                        /\ \E snap \in ProviderSnapshots :
                             users'[u].auth0_permissions = snap.permissions
              /\ ctx[r].kind # "management" =>
                   /\ users'[u].auth0_roles = GetDefaultRoles(u, ctx[r].mem)
                   /\ users'[u].auth0_permissions =
                          GetPermissionsForRoles(users'[u].auth0_roles)
              /\ users'[u].last_auth0_sync =
                     (IF ctx[r].kind = "management" THEN now
                      ELSE ctx[r].out.last_auth0_sync)
              /\ ctx'[r].result = "true"
              /\ \A t \in users'[u].last_auth0_sync ..
                           users'[u].last_auth0_sync + StalenessHours :
                   ~NeedsPermissionSync(users'[u].last_auth0_sync, t)
         /\ (pc[r] = "s_roles" /\ pc'[r] = "s_write") =>
              ctx'[r].out.last_auth0_sync = now
         /\ (pc[r] = "check" /\ pc'[r] # "check"
             /\ ctx[r].mem.last_auth0_sync # NeverSynced
             /\ now - ctx[r].mem.last_auth0_sync <= StalenessHours) =>
              pc'[r] = "decide" /\ ~ctx'[r].synced /\ users' = users
      ]_vars

\* a role and a permission the user held from an earlier sync were revoked at
\* the provider, and after the next provider sync the user holds neither
C26_Witness ==
    \E r \in Requests :
      /\ ctx[r].kind = "management" /\ pc[r] = "decide"
      /\ ctx[r].result = "true" /\ ~ctx[r].failed
      /\ "vendor_admin" \in ctx[r].mem.auth0_roles
      /\ "update:own_vendor" \in ctx[r].mem.auth0_permissions
      /\ ctx[r].mem.roles_fetch # NoFetch
      /\ users[ctx[r].user].auth0_roles = {}
      /\ users[ctx[r].user].auth0_permissions = {}
      /\ users[ctx[r].user].last_auth0_sync = now

\* ------------------------------------------------------------------ C29
\* the users that hold Auth0 id sub
HoldersOf(table, sub) == {u \in DOMAIN table : table[u].auth0_user_id = sub}

\* C29: the Auth0 id is a stable unique key: over token authentications and
\* login callbacks no two users share an Auth0 id, a user is created only for an
\* Auth0 id no user held, and a non-null Auth0 id of a user is never replaced by
\* a different one.
C29_SubjectIdStable ==
    [][/\ \A sub \in Subjects : Cardinality(HoldersOf(users', sub)) <= 1
       /\ \A u \in DOMAIN users' \ DOMAIN users :
            HoldersOf(users, users'[u].auth0_user_id) = {}
       /\ \A u \in DOMAIN users :
            users[u].auth0_user_id # NULL =>
              users'[u].auth0_user_id = users[u].auth0_user_id
      ]_vars

\* ------------------------------------------------------------------ C21
\* the failure of a token whose key id is in no key set that was looked at
UnknownSigningKey == "Authentication failed: Unable to find matching key"

\* C21: a validation fetches the key set on a cache miss; when the token's key
\* id is not among the cached keys it refetches the key set exactly once before
\* it fails with UnknownSigningKey, so that a token signed with a key the
\* provider published after the key set was cached is not refused for its key.
C21_OneRefetchOnUnknownKey ==
    [][\A tok \in KeyTokens :
         (Authenticate(tok) /\ tok.kid # NULL) =>
            /\ ~CachedJwks => jwks'.fetches = 1
            /\ (CachedJwks /\ tok.kid \in jwks.keys) => jwks'.fetches = 0
            /\ (CachedJwks /\ tok.kid \notin jwks.keys) =>
                 /\ jwks'.fetches = 1
                 /\ (jwks.reachable /\ tok.kid \in jwks.published) =>
                       reply'.detail # UnknownSigningKey
      ]_vars

\* ------------------------------------------------------------------ C22
\* the key set the validation of tok looks the key id up in holds that key id
KeyFound(tok) ==
    /\ tok.kid # NULL
    /\ \/ CachedJwks /\ tok.kid \in jwks.keys
       \/ ~CachedJwks /\ jwks.reachable /\ tok.kid \in jwks.published

\* a failed authentication changed nothing but the JWKS entry of the cache
OnlyKeyCachePopulated ==
    /\ users' = users
    /\ UNCHANGED <<now, provider, vendors, vendor_users, inquiries, pc, ctx, nfetch,
                   management_token>>
    /\ jwks'.published = jwks.published /\ jwks'.reachable = jwks.reachable
    /\ \/ jwks' = [jwks EXCEPT !.fetches = jwks'.fetches]
       \/ /\ jwks'.fetches = 1
          /\ jwks'.cached /\ jwks'.keys = jwks.published /\ jwks'.cached_at = now

GotToken(r) == pc[r] = "m_token" /\ pc'[r] = "m_roles"

\* C23: getManagementToken exchanges credentials on first use, returns the
\* cached token without contacting the provider for as long as that token is
\* alive, and exchanges again once it has expired: on the instance that keeps
\* the token an exchange is made exactly when no live token is held, and the
\* token handed to the management API calls is never an expired one.
C23_TokenCachedForLifetime ==
    [][\A r \in Requests :
         (GotToken(r) /\ ctx[r].instance = "shared") =>
            /\ (ctx'[r].calls = ctx[r].calls + 1)
                   <=> ~(management_token # NoToken /\ now < management_token)
            /\ now < ctx'[r].token
            /\ management_token' = ctx'[r].token
      ]_vars

\* ------------------------------------------------------------------ C24
\* C24: every sync attempt terminates: also when the provider never answers the
\* token exchange, the roles fetch or the permissions fetch, the request that
\* triggered the sync eventually completes.
C24_SyncTerminates == (pc["r1"] = "m_start") ~> (pc["r1"] = "done")

\* ------------------------------------------------------------------ C27
\* the elements of a list
Elements(list) == {list[i] : i \in DOMAIN list}

\* C27: the permission list computed from a role list is the flat union of the
\* permission sets of its roles: no permission occurs twice, the permissions
\* depend neither on the order nor on the repetition of the roles, a role that
\* is not in the mapping contributes nothing, and a role gives only its own
\* permissions, never those of another role.
C27_FlatUnion ==
    reply.op = "permissions" =>
      LET roles == reply.check.args
          result == reply.check.value
      IN /\ \A i, j \in DOMAIN result : i # j => result[i] # result[j]
         /\ Elements(result) = UNION {RolePermissions(roles[i]) : i \in DOMAIN roles}
         /\ \A other \in RoleLists :
              Elements(other) = Elements(roles) =>
                Elements(GetPermissionsForRoleList(other)) = Elements(result)
         /\ Elements(result) =
              Elements(GetPermissionsForRoleList(
                          SelectSeq(roles, LAMBDA role : role # "vendor_admin")))
         /\ "user" \notin Elements(roles) => "create:inquiries" \notin Elements(result)
         /\ "vendor_representative" \notin Elements(roles) =>
              Elements(result) \cap {"update:own_vendor", "manage:vendor_images",
                                     "read:inquiries"} = {}
         /\ "event_organizer" \notin Elements(roles) =>
              Elements(result) \cap {"create:events", "manage:events",
                                     "invite:users"} = {}
         /\ Elements(result) = GetPermissionsForRoles(Elements(roles))

\* a list that repeats a role and holds a role outside the mapping got the six
\* permissions of the repeated role, each once
C27_Witness ==
    /\ reply.op = "permissions"
    /\ reply.check.args = <<"vendor_representative", "vendor_admin", "vendor_representative">>
    /\ Len(reply.check.value) = Cardinality(RolePermissions("vendor_representative"))
    /\ "update:own_vendor" \in Elements(reply.check.value)

\* ------------------------------------------------------------------ C28
\* user passes the check that guard fn declares with args
PassesGuard(user, fn, args) ==
    CASE fn = "require_auth0_permission" ->
           \A permission \in args : permission \in user.auth0_permissions
      [] fn = "require_auth0_role" -> \A role \in args : role \in user.auth0_roles
      [] fn = "require_any_auth0_role" -> \E role \in args : role \in user.auth0_roles
      [] OTHER -> \A permission \in args : HasPermission(user, permission)

\* C28: a guarded view runs only for an authenticated user that passes the
\* declared check: an anonymous request always gets 401 and never 403, an
\* authenticated request that fails the check always gets 403, and in both
\* cases the view is not called.
C28_GuardStatus ==
    [][(reply' # reply /\ reply'.op = "guard") =>
         LET u == reply'.user
             guard == reply'.check
         IN /\ u = NoUser => reply'.status = 401
            /\ (u # NoUser /\ ~PassesGuard(users'[u], guard.fn, guard.args)) =>
                 reply'.status = 403
            /\ reply'.status \in {401, 403} => ~guard.value
            /\ guard.value =>
                 u # NoUser /\ PassesGuard(users'[u], guard.fn, guard.args)
      ]_vars

\* ------------------------------------------------------------------ C25
\* user u holds update:own_vendor and is the administrator of vendor v, or has
\* an active relationship to v with the edit-info capability
MayEditVendor(u, v) ==
    /\ u # NoUser
    /\ "update:own_vendor" \in users[u].auth0_permissions
    /\ \/ vendors[v].admin = u
       \/ \E vu \in vendor_users :
            /\ vu.user = u /\ vu.vendor = v
            /\ vu.is_active /\ vu.can_edit_vendor_info

====
